---- MODULE Spec2Model ----
(***************************************************************************)
(* ScannerMotorInterfuse (logic/interfuse/confocal_scanner_motor_interfuse) *)
(* as a state machine: the adapter's attributes are the variables, every    *)
(* public method is an action, the stage device and the counter logic are   *)
(* inputs chosen by \E.                                                      *)
(*                                                                           *)
(* Numbers.  A coordinate or range bound c stands for the float c/2, so     *)
(* that an odd c is a value with a fractional part and an even c is a whole *)
(* number.  A dwell delay d stands for d/100 seconds.                       *)
(***************************************************************************)
EXTENDS Integers, Sequences, FiniteSets, TLC

\* ------------------------------------------------------------------ bounds
MaxCoord == 2
MaxPixels == 2

\* --------------------------------------------------------- program constants
OK == 0
ERR == 0 - 1
DefaultBins == 1
DefaultDelay == 2
NumAxes == 4

Coords == 0..MaxCoord
AxisNames == <<"x", "y", "z", "a">>
Axes == 1..NumAxes
AxisNameSet == {AxisNames[k] : k \in Axes}
AxisIndex(name) == CHOOSE k \in Axes : AxisNames[k] = name

\* The adapter's attributes (scanner_position_ranges .. line_length), the
\* locals of a running scan_line (line_path, i, count_data), and what a caller
\* can observe of the call in progress or just finished: call (the method and
\* its arguments), ret (what it handed back) and trace (the calls it made on
\* the stage, on time.sleep and on the counter logic, in order).
\*   phase: "constructed", "active", "activation_raised", "deactivated"
\*   pc:    "idle", "scan_for", "scan_wait", "scan_sample", "returned"
VARIABLES
    phase,
    pc,
    scanner_position_ranges,
    current_position,
    dwell_cnt_bins,
    dwell_delay,
    line_length,
    line_path,
    i,
    count_data,
    call,
    ret,
    trace

attrs == <<scanner_position_ranges, current_position, dwell_cnt_bins, dwell_delay,
           line_length>>
locals == <<line_path, i, count_data>>
vars == <<phase, pc, attrs, locals, call, ret, trace>>

\* ------------------------------------------------------------ return values
\* What a call hands back: an error code (kind "code"), a value (kind
\* "value"), None (kind "None") or an exception that leaves the method
\* (kind "raise", exc names it).  log is the message written to self.log.
RetCode(op, c, log) ==
    [op |-> op, kind |-> "code", code |-> c, exc |-> "", val |-> <<>>, log |-> log]
RetValue(op, v) ==
    [op |-> op, kind |-> "value", code |-> OK, exc |-> "", val |-> v, log |-> ""]
RetNone(op) ==
    [op |-> op, kind |-> "None", code |-> OK, exc |-> "", val |-> <<>>, log |-> ""]
RetRaise(op, e) ==
    [op |-> op, kind |-> "raise", code |-> OK, exc |-> e, val |-> <<>>, log |-> ""]

\* One entry of trace: the function called, its argument, and how it ended.
Call(f, arg, out) == [f |-> f, arg |-> arg, out |-> out]

NoCall == [op |-> "", args |-> <<>>]
NoRet == [op |-> "", kind |-> "", code |-> OK, exc |-> "", val |-> <<>>, log |-> ""]

\* ------------------------------------------------------------- range tables
Top == 2 * (MaxCoord \div 2)

\* scanner_position_ranges as the configuration supplies it (ConfigOption,
\* missing='error'): four [min, max] rows, min <= max.
ConfigTables ==
    { <<<<0, Top>>, <<0, Top>>, <<0, Top>>, <<0, Top>>>>,
      <<<<0, Top>>, <<1, 1>>, <<Top, Top>>, <<0, 0>>>> }

ValidTables ==
    ConfigTables \cup { <<<<1, MaxCoord>>, <<0, 1>>, <<0, 0>>, <<1, MaxCoord>>>> }

ReplaceRow(t, k, row) == [t EXCEPT ![k] = row]

\* Arguments of set_position_range: None, a value that is no array type, or a
\* list of rows (valid ones, and valid ones spoilt in one place).
RangeInputs ==
    { [type |-> "None", rows |-> <<>>], [type |-> "int", rows |-> <<>>] }
    \cup { [type |-> "list", rows |-> t] : t \in ValidTables }
    \cup { [type |-> "list", rows |-> SubSeq(t, 1, 3)] : t \in ValidTables }
    \cup { [type |-> "list", rows |-> Append(t, t[1])] : t \in ValidTables }
    \cup { [type |-> "list", rows |-> ReplaceRow(t, k, <<t[k][1]>>)] :
             t \in ValidTables, k \in Axes }
    \cup { [type |-> "list", rows |-> ReplaceRow(t, k, <<t[k][1], t[k][2], t[k][2]>>)] :
             t \in ValidTables, k \in Axes }
    \cup { [type |-> "list", rows |-> ReplaceRow(t, k, <<t[k][2] + 1, t[k][1]>>)] :
             t \in ValidTables, k \in Axes }

\* myrange = None is replaced by [[0, 1e-6]] * 4; the bound 1e-6 is written 1,
\* the smallest positive coordinate.
DefaultRange == <<<<0, 1>>, <<0, 1>>, <<0, 1>>, <<0, 1>>>>

\* '{0:d}'.format(v): text for an int, TypeError for a list, tuple or array.
FormatD(argtype) == IF argtype = "int" THEN "text" ELSE "TypeError"

\* The first row (in iteration order) that fails a check, 0 if none does.
RowCheck(pos) ==
    IF Len(pos) # 2 THEN "dimension"
    ELSE IF pos[1] > pos[2] THEN "order"
    ELSE "ok"

FirstBadRow(rows) ==
    IF \E k \in 1..Len(rows) : RowCheck(rows[k]) # "ok"
    THEN CHOOSE k \in 1..Len(rows) :
            /\ RowCheck(rows[k]) # "ok"
            /\ \A j \in 1..(k - 1) : RowCheck(rows[j]) = "ok"
    ELSE 0

\* As SetRangeResult, but a table that passes the checks is not stored.
SetRangeResultNotStored(myrange, stored) ==
    LET rows == IF myrange.type = "None" THEN DefaultRange ELSE myrange.rows
        isarray == myrange.type \in {"None", "list"}
    IN  IF ~isarray \/ Len(rows) # NumAxes
        THEN [ret |-> RetCode("set_position_range", ERR, "no array type"),
              ranges |-> stored]
        ELSE IF FirstBadRow(rows) # 0
        THEN [ret |-> RetRaise("set_position_range", "TypeError"), ranges |-> stored]
        ELSE [ret |-> RetCode("set_position_range", OK, ""), ranges |-> stored]

\* set_position_range as a function of its argument and the stored table:
\* the value returned (or the exception) and the table stored afterwards.
SetRangeResult(myrange, stored) ==
    LET rows == IF myrange.type = "None" THEN DefaultRange ELSE myrange.rows
        isarray == myrange.type \in {"None", "list"}
        bad == FirstBadRow(rows)
    IN  IF ~isarray
        THEN [ret |-> RetCode("set_position_range", ERR, "no array type"),
              ranges |-> stored]
        ELSE IF Len(rows) # NumAxes
        THEN [ret |-> IF FormatD("int") = "text"
                      THEN RetCode("set_position_range", ERR, "dimension 4")
                      ELSE RetRaise("set_position_range", "TypeError"),
              ranges |-> stored]
        ELSE IF bad # 0
        THEN [ret |-> IF FormatD("list") = "text"
                      THEN RetCode("set_position_range", ERR, RowCheck(rows[bad]))
                      ELSE RetRaise("set_position_range", "TypeError"),
              ranges |-> stored]
        ELSE [ret |-> RetCode("set_position_range", OK, ""), ranges |-> rows]

get_position_range(stored) == stored

\* ----------------------------------------------------------------- position
\* self._current_position is [kind, val]:
\*   "missing"       the attribute does not exist yet (before on_activate)
\*   "ndarray_float" np.array of four floats
\*   "ndarray_int"   np.array of four ints (the stage reported ints)
\*   "ndarray_None"  np.array(None), a 0-dimensional object array
\*   "list"          the Python list self._middle_xyz_pos
IsWhole(c) == c % 2 = 0

\* A float stored into an integer array loses its fractional part.
Trunc(c) == IF c >= 0 THEN 2 * (c \div 2) ELSE 0 - 2 * ((0 - c) \div 2)

\* self._current_position[k] = np.float(v), then read back.  np.float is the
\* builtin float, exact on the coordinates used here; the array's dtype
\* decides what is stored.
SetItem(kind, val, k, v) ==
    IF kind = "ndarray_int" THEN [val EXCEPT ![k] = Trunc(v)]
    ELSE [val EXCEPT ![k] = v]

\* What the stage's get_pos can do: raise, fail with (or lead to) a KeyError
\* because an axis is missing from the map, or report x, y, z as ints or
\* floats.
GetPosResults ==
    { [out |-> "raise", xyz |-> <<>>, ints |-> FALSE],
      [out |-> "KeyError", xyz |-> <<>>, ints |-> FALSE] }
    \cup { [out |-> "ok", xyz |-> <<x, y, z>>, ints |-> FALSE] :
             x \in Coords, y \in Coords, z \in Coords }
    \cup { [out |-> "ok", xyz |-> <<x, y, z>>, ints |-> TRUE] :
             x \in {c \in Coords : IsWhole(c)},
             y \in {c \in Coords : IsWhole(c)},
             z \in {c \in Coords : IsWhole(c)} }

\* _get_scanner_position_init with the outcome g1 of the first get_pos and g2
\* of the one in the except-Exception handler.
GetScannerPositionInit(g1, g2) ==
    IF g1.out = "ok"
    THEN [out |-> "return", position |-> Append(g1.xyz, 0), ints |-> g1.ints,
          calls |-> <<Call("get_pos", <<>>, "ok")>>]
    ELSE IF g1.out = "KeyError"
    THEN [out |-> "None", position |-> <<>>, ints |-> FALSE,
          calls |-> <<Call("get_pos", <<>>, "KeyError")>>]
    ELSE IF g2.out = "ok"
    THEN [out |-> "return", position |-> Append(g2.xyz, 0), ints |-> g2.ints,
          calls |-> <<Call("get_pos", <<>>, "raise"),
                      Call("get_pos", <<>>, "ok")>>]
    ELSE IF g2.out = "KeyError"
    THEN [out |-> "None", position |-> <<>>, ints |-> FALSE,
          calls |-> <<Call("get_pos", <<>>, "raise"),
                      Call("get_pos", <<>>, "KeyError")>>]
    ELSE [out |-> "raise", position |-> <<>>, ints |-> FALSE,
          calls |-> <<Call("get_pos", <<>>, "raise"),
                      Call("get_pos", <<>>, "raise")>>]

\* 0.5 * (min + max); the configured bounds have an even sum, so the half is
\* a coordinate.
Middle(ranges) == [k \in Axes |-> (ranges[k][1] + ranges[k][2]) \div 2]

\* np.array(position): the dtype follows the elements, and np.array(None) is
\* a 0-dimensional object array (no exception).
NpArray(r) ==
    IF r.out = "None" THEN [kind |-> "ndarray_None", val |-> <<>>]
    ELSE IF r.ints THEN [kind |-> "ndarray_int", val |-> r.position]
    ELSE [kind |-> "ndarray_float", val |-> r.position]

\* get_scanner_position: self._current_position.tolist().
get_scanner_position(pos) ==
    IF pos.kind = "list" THEN RetRaise("get_scanner_position", "AttributeError")
    ELSE IF pos.kind = "ndarray_None" THEN RetNone("get_scanner_position")
    ELSE RetValue("get_scanner_position", pos.val)

\* One of the four "if <axis> is not None" blocks of scanner_set_position.
\* st.out is "run" while the method is still executing.
InRange(ranges, k, v) == ranges[k][1] <= v /\ v <= ranges[k][2]

\* As AxisStep, but an out-of-range coordinate is logged and skipped instead of
\* ending the call.
AxisStepNoReturn(st, ranges, args, k) ==
    IF st.out # "run" \/ AxisNames[k] \notin DOMAIN args THEN st
    ELSE IF ~InRange(ranges, k, args[AxisNames[k]])
    THEN [st EXCEPT !.log = AxisNames[k]]
    ELSE IF st.kind = "ndarray_None"
    THEN [st EXCEPT !.out = "IndexError"]
    ELSE LET val == SetItem(st.kind, st.val, k, args[AxisNames[k]])
         IN  [st EXCEPT !.val = val,
                        !.move_dict = (AxisNames[k] :> val[k]) @@ st.move_dict]

AxisStep(st, ranges, args, k) ==
    IF st.out # "run" \/ AxisNames[k] \notin DOMAIN args THEN st
    ELSE IF ~InRange(ranges, k, args[AxisNames[k]])
    THEN [st EXCEPT !.out = "range", !.log = AxisNames[k]]
    ELSE IF st.kind = "ndarray_None"
    THEN [st EXCEPT !.out = "IndexError"]
    ELSE LET val == SetItem(st.kind, st.val, k, args[AxisNames[k]])
         IN  [st EXCEPT !.val = val,
                        !.move_dict = (AxisNames[k] :> val[k]) @@ st.move_dict]

\* scanner_set_position on position pos with the stored ranges; move is what
\* the stage's move_abs does if it is called ("ok" or "raise").
SetPositionResult(pos, ranges, args, move) ==
    LET st0 == [kind |-> pos.kind, val |-> pos.val, move_dict |-> <<>>,
                out |-> "run", log |-> ""]
        st == AxisStep(AxisStep(AxisStep(AxisStep(st0, ranges, args, 1),
                                         ranges, args, 2), ranges, args, 3),
                       ranges, args, 4)
        position == [kind |-> pos.kind, val |-> st.val]
    IN  IF st.out = "range"
        THEN [position |-> position, calls |-> <<>>,
              ret |-> RetCode("scanner_set_position", ERR, st.log)]
        ELSE IF st.out = "IndexError"
        THEN [position |-> position, calls |-> <<>>,
              ret |-> RetRaise("scanner_set_position", "IndexError")]
        ELSE [position |-> position,
              calls |-> <<Call("move_abs", st.move_dict, move)>>,
              ret |-> IF move = "ok"
                      THEN RetCode("scanner_set_position", OK, "")
                      ELSE RetCode("scanner_set_position", ERR, "move_abs")]

\* Keyword arguments of a call: a value for each axis that is not None.
PositionArgs ==
    UNION { [S -> Coords] : S \in SUBSET AxisNameSet }

\* ---------------------------------------------------------------- line scan
\* The pixels lines are built from, as (x, y, z, a).
Pixels == { <<0, 0, 0, 0>>, <<1, 1, Top, 0>>, <<Top, 1, Top, 1>> }

Lines == UNION { [1..n -> Pixels] : n \in 0..MaxPixels }
ShortLines == UNION { [1..n -> Pixels] : n \in 0..1 }

\* The 4 x N table of a line: row r holds coordinate r of every pixel.
Rows(line) == [r \in Axes |-> [c \in 1..Len(line) |-> line[c][r]]]

\* Arguments of scan_line: a value that is no array type, a 4 x N numpy array,
\* a plain nested list of 4 rows, a numpy array of 3 rows, a one-dimensional
\* numpy array.
LineInputs ==
    { [type |-> "None", rows |-> <<>>] }
    \cup { [type |-> "ndarray", rows |-> Rows(l)] : l \in Lines }
    \cup { [type |-> "list", rows |-> Rows(l)] : l \in ShortLines }
    \cup { [type |-> "ndarray", rows |-> SubSeq(Rows(l), 1, 3)] : l \in ShortLines }
    \cup { [type |-> "ndarray1d", rows |-> p] : p \in Pixels }

\* np.array([-1.])
Sentinel == <<ERR>>

\* self._counter_logic.countdata as scan_line may find it: [channel, index].
CountBuffers ==
    { << <<1, 0>>, <<1, 1>> >>, << <<0, 1>>, <<0, 0>> >> }

\* row[-K:]: the last K entries for K > 0 (all of them if there are fewer),
\* the whole row for K = 0, the row without its first -K entries for K < 0.
LastBins(row, K) ==
    IF K > 0 THEN SubSeq(row, IF K >= Len(row) THEN 1 ELSE Len(row) - K + 1, Len(row))
    ELSE IF K = 0 THEN row
    ELSE SubSeq(row, 1 - K, Len(row))

RECURSIVE Sum(_)
Sum(s) == IF s = <<>> THEN 0 ELSE Head(s) + Sum(Tail(s))

\* np.mean as the fraction sum / n; n = 0 is nan (the mean of no entries).
Mean(s) == [sum |-> Sum(s), n |-> Len(s)]

\* np.zeros(n)
Zeros(n) == [c \in 1..n |-> [sum |-> 0, n |-> 1]]

\* line_path[:, i]: column i of a numpy array; a list cannot be indexed so.
Column(rows, c) == [r \in 1..Len(rows) |-> rows[r][c]]

\* np.array([count_data]).T: one row per pixel, one column.
ColumnVector(cd) == [n \in 1..Len(cd) |-> <<cd[n]>>]

\* ------------------------------------------------------------------ actions
Init ==
    /\ phase = "constructed"
    /\ pc = "idle"
    /\ scanner_position_ranges \in ConfigTables
    /\ current_position = [kind |-> "missing", val |-> <<>>]
    /\ dwell_cnt_bins = <<>>
    /\ dwell_delay = <<>>
    /\ line_length = <<>>
    /\ line_path = <<>>
    /\ i = 0
    /\ count_data = <<>>
    /\ call = NoCall
    /\ ret = NoRet
    /\ trace = <<>>

\* on_activate.  cons is what the stage's get_constraints does, g1 and g2 what
\* its get_pos does on the first and on the second call.
on_activate(cons, g1, g2) ==
    /\ phase = "constructed" /\ pc = "idle"
    /\ pc' = "returned"
    /\ call' = [op |-> "on_activate", args |-> <<>>]
    /\ IF cons = "raise"
       THEN /\ phase' = "activation_raised"
            /\ ret' = RetRaise("on_activate", "Exception")
            /\ trace' = <<Call("get_constraints", <<>>, "raise")>>
            /\ UNCHANGED <<current_position, dwell_cnt_bins, dwell_delay>>
       ELSE LET r == GetScannerPositionInit(g1, g2)
            IN  /\ phase' = "active"
                /\ trace' = <<Call("get_constraints", <<>>, "ok")>> \o r.calls
                /\ IF r.out = "raise"
                   THEN /\ current_position' =
                               [kind |-> "list",
                                val |-> Middle(get_position_range(scanner_position_ranges))]
                        /\ ret' = RetCode("on_activate", ERR, "activation failed")
                        /\ UNCHANGED <<dwell_cnt_bins, dwell_delay>>
                   ELSE /\ current_position' = NpArray(r)
                        /\ dwell_cnt_bins' = <<DefaultBins>>
                        /\ dwell_delay' = <<DefaultDelay>>
                        /\ ret' = RetCode("on_activate", OK, "")
    /\ UNCHANGED <<scanner_position_ranges, line_length, locals>>

set_position_range(myrange) ==
    /\ phase = "active" /\ pc = "idle"
    /\ pc' = "returned"
    /\ call' = [op |-> "set_position_range", args |-> myrange]
    /\ LET r == SetRangeResult(myrange, scanner_position_ranges)
       IN  /\ scanner_position_ranges' = r.ranges
           /\ ret' = r.ret
    /\ trace' = <<>>
    /\ UNCHANGED <<phase, current_position, dwell_cnt_bins, dwell_delay, line_length,
                   locals>>

GetPositionRange ==
    /\ phase = "active" /\ pc = "idle"
    /\ pc' = "returned"
    /\ call' = [op |-> "get_position_range", args |-> <<>>]
    /\ ret' = RetValue("get_position_range", get_position_range(scanner_position_ranges))
    /\ trace' = <<>>
    /\ UNCHANGED <<phase, attrs, locals>>

\* move is what the stage's move_abs does; it matters only if it is called.
scanner_set_position(args, move) ==
    /\ phase = "active" /\ pc = "idle"
    /\ pc' = "returned"
    /\ call' = [op |-> "scanner_set_position", args |-> args]
    /\ LET r == SetPositionResult(current_position, scanner_position_ranges, args, move)
       IN  /\ move = "raise" => r.calls # <<>>
           /\ current_position' = r.position
           /\ trace' = r.calls
           /\ ret' = r.ret
    /\ UNCHANGED <<phase, scanner_position_ranges, dwell_cnt_bins, dwell_delay,
                   line_length, locals>>

GetScannerPosition ==
    /\ phase = "active" /\ pc = "idle"
    /\ pc' = "returned"
    /\ call' = [op |-> "get_scanner_position", args |-> <<>>]
    /\ ret' = get_scanner_position(current_position)
    /\ trace' = <<>>
    /\ UNCHANGED <<phase, attrs, locals>>

\* scan_line up to the for loop.
scan_line(line) ==
    /\ phase = "active" /\ pc = "idle"
    /\ call' = [op |-> "scan_line", args |-> line]
    /\ trace' = <<>>
    /\ IF line.type \notin {"list", "ndarray", "ndarray1d"}
       THEN /\ ret' = RetValue("scan_line", Sentinel)
            /\ pc' = "returned"
            /\ UNCHANGED <<line_length, locals>>
       ELSE IF line.type = "ndarray1d"
       THEN /\ ret' = RetRaise("scan_line", "IndexError")
            /\ pc' = "returned"
            /\ UNCHANGED <<line_length, locals>>
       ELSE /\ line_length' = <<Len(line.rows[1])>>
            /\ line_path' = line
            /\ count_data' = Zeros(Len(line.rows[1]))
            /\ i' = 0
            /\ pc' = "scan_for"
            /\ UNCHANGED ret
    /\ UNCHANGED <<phase, scanner_position_ranges, current_position, dwell_cnt_bins,
                   dwell_delay>>

\* The head of the for loop and the scanner_set_position call of pixel i, or
\* the return after the last pixel.  The value scanner_set_position returns
\* is dropped; trace keeps it after the move_abs it made.
ScanFor(move) ==
    /\ pc = "scan_for"
    /\ IF i = line_length[1]
       THEN /\ move = "ok"
            /\ ret' = RetValue("scan_line", ColumnVector(count_data))
            /\ pc' = "returned"
            /\ UNCHANGED <<current_position, trace>>
       ELSE IF line_path.type = "list"
       THEN /\ move = "ok"
            /\ ret' = RetRaise("scan_line", "TypeError")
            /\ pc' = "returned"
            /\ UNCHANGED <<current_position, trace>>
       ELSE IF Len(Column(line_path.rows, i + 1)) < NumAxes
       THEN /\ move = "ok"
            /\ ret' = RetRaise("scan_line", "IndexError")
            /\ pc' = "returned"
            /\ UNCHANGED <<current_position, trace>>
       ELSE LET coords == Column(line_path.rows, i + 1)
                args == [n \in AxisNameSet |-> coords[AxisIndex(n)]]
                r == SetPositionResult(current_position, scanner_position_ranges,
                                       args, move)
            IN  /\ move = "raise" => r.calls # <<>>
                /\ current_position' = r.position
                /\ trace' = trace \o r.calls \o
                       <<Call("scanner_set_position", args,
                              IF r.ret.kind = "raise" THEN "raise"
                              ELSE IF r.ret.code = OK THEN "ok" ELSE "error")>>
                /\ IF r.ret.kind = "raise"
                   THEN ret' = RetRaise("scan_line", r.ret.exc) /\ pc' = "returned"
                   ELSE pc' = "scan_wait" /\ UNCHANGED ret
    /\ UNCHANGED <<phase, scanner_position_ranges, dwell_cnt_bins, dwell_delay,
                   line_length, locals, call>>

\* on_target: the stage's on_target, its result or its exception passed on.
on_target(tgt) ==
    IF tgt = "raise" THEN RetRaise("on_target", "Exception")
    ELSE RetCode("on_target", OK, "")

\* The wait of pixel i: on_target() for the first pixel, time.sleep of the
\* dwell delay for the others.  tgt is what the stage's on_target does.
ScanWait(tgt) ==
    /\ pc = "scan_wait"
    /\ IF i = 0
       THEN /\ trace' = Append(trace, Call("on_target", <<>>, tgt))
            /\ IF on_target(tgt).kind = "raise"
               THEN ret' = RetRaise("scan_line", on_target(tgt).exc) /\ pc' = "returned"
               ELSE pc' = "scan_sample" /\ UNCHANGED ret
       ELSE /\ tgt = "ok"
            /\ IF dwell_delay = <<>>
               THEN /\ ret' = RetRaise("scan_line", "AttributeError")
                    /\ pc' = "returned"
                    /\ UNCHANGED trace
               ELSE IF dwell_delay[1] < 0
               THEN /\ ret' = RetRaise("scan_line", "ValueError")
                    /\ pc' = "returned"
                    /\ UNCHANGED trace
               ELSE /\ trace' = Append(trace, Call("sleep", dwell_delay[1], "ok"))
                    /\ pc' = "scan_sample"
                    /\ UNCHANGED ret
    /\ UNCHANGED <<phase, attrs, locals, call>>

\* The count sample of pixel i: the mean of countdata[0, -dwell_cnt_bins:],
\* countdata being what the counter logic holds at that moment.
ScanSample(countdata) ==
    /\ pc = "scan_sample"
    /\ IF dwell_cnt_bins = <<>>
       THEN /\ ret' = RetRaise("scan_line", "AttributeError")
            /\ pc' = "returned"
            /\ UNCHANGED <<trace, i, count_data>>
       ELSE LET this_count_data == LastBins(countdata[1], dwell_cnt_bins[1])
            IN  /\ count_data' = [count_data EXCEPT ![i + 1] = Mean(this_count_data)]
                /\ trace' = Append(trace, Call("countdata", countdata,
                                               Mean(this_count_data)))
                /\ i' = i + 1
                /\ pc' = "scan_for"
                /\ UNCHANGED ret
    /\ UNCHANGED <<phase, attrs, line_path, call>>

\* ------------------------------------------------------------- dwell policy
\* The values callers hand to the setters; nothing restricts them.  A count
\* of 0, a count of 2, a delay of -0.01 s and a delay of 0.05 s.
BinInputs == {0, 2}
DelayInputs == {0 - 1, 5}

\* return self._dwell_cnt_bins / self._dwell_delay: the attribute, or an
\* AttributeError if on_activate never assigned it.
get_dwell_count_bins(bins) ==
    IF bins = <<>> THEN RetRaise("get_dwell_count_bins", "AttributeError")
    ELSE RetValue("get_dwell_count_bins", bins[1])

get_dwell_delay(delay) ==
    IF delay = <<>> THEN RetRaise("get_dwell_delay", "AttributeError")
    ELSE RetValue("get_dwell_delay", delay[1])

GetDwellCountBins ==
    /\ phase = "active" /\ pc = "idle"
    /\ pc' = "returned"
    /\ call' = [op |-> "get_dwell_count_bins", args |-> <<>>]
    /\ ret' = get_dwell_count_bins(dwell_cnt_bins)
    /\ trace' = <<>>
    /\ UNCHANGED <<phase, attrs, locals>>

GetDwellDelay ==
    /\ phase = "active" /\ pc = "idle"
    /\ pc' = "returned"
    /\ call' = [op |-> "get_dwell_delay", args |-> <<>>]
    /\ ret' = get_dwell_delay(dwell_delay)
    /\ trace' = <<>>
    /\ UNCHANGED <<phase, attrs, locals>>

\* As set_dwell_delay, but the delay is added to the one stored.
set_dwell_delay_added(delay) ==
    /\ phase = "active" /\ pc = "idle"
    /\ pc' = "returned"
    /\ call' = [op |-> "set_dwell_delay", args |-> delay]
    /\ dwell_delay' = IF dwell_delay = <<>> THEN <<delay>>
                      ELSE <<dwell_delay[1] + delay>>
    /\ ret' = RetNone("set_dwell_delay")
    /\ trace' = <<>>
    /\ UNCHANGED <<phase, scanner_position_ranges, current_position, dwell_cnt_bins,
                   line_length, locals>>

\* self._dwell_delay = delay
set_dwell_delay(delay) ==
    /\ phase = "active" /\ pc = "idle"
    /\ pc' = "returned"
    /\ call' = [op |-> "set_dwell_delay", args |-> delay]
    /\ dwell_delay' = <<delay>>
    /\ ret' = RetNone("set_dwell_delay")
    /\ trace' = <<>>
    /\ UNCHANGED <<phase, scanner_position_ranges, current_position, dwell_cnt_bins,
                   line_length, locals>>

\* self._dwell_cnt_bins = num_of_bins
set_dwell_count_bins(num_of_bins) ==
    /\ phase = "active" /\ pc = "idle"
    /\ pc' = "returned"
    /\ call' = [op |-> "set_dwell_count_bins", args |-> num_of_bins]
    /\ dwell_cnt_bins' = <<num_of_bins>>
    /\ ret' = RetNone("set_dwell_count_bins")
    /\ trace' = <<>>
    /\ UNCHANGED <<phase, scanner_position_ranges, current_position, dwell_delay,
                   line_length, locals>>

\* ------------------------------------------------- stage control operations
\* The public on_target, called by a user of the adapter.
OnTarget(tgt) ==
    /\ phase = "active" /\ pc = "idle"
    /\ pc' = "returned"
    /\ call' = [op |-> "on_target", args |-> <<>>]
    /\ ret' = on_target(tgt)
    /\ trace' = <<Call("on_target", <<>>, tgt)>>
    /\ UNCHANGED <<phase, attrs, locals>>

\* close_scanner: abort is what the stage's abort does.
close_scanner(abort) ==
    /\ phase = "active" /\ pc = "idle"
    /\ pc' = "returned"
    /\ call' = [op |-> "close_scanner", args |-> <<>>]
    /\ trace' = <<Call("abort", <<>>, abort)>>
    /\ ret' = IF abort = "raise" THEN RetCode("close_scanner", ERR, "close scanner")
              ELSE RetCode("close_scanner", OK, "")
    /\ UNCHANGED <<phase, attrs, locals>>

\* The time.sleep(0.1) between abort and on_deactivate, in 1/100 s.
ResetPause == 10

\* As ResetHardware, but the stage is deactivated before its motion is
\* aborted.
ResetHardwareDeactivateFirst(abort, deactivate) ==
    IF deactivate = "raise"
    THEN [calls |-> <<Call("on_deactivate", <<>>, "raise")>>,
          ret |-> RetCode("reset_hardware", ERR, "reset_hardware")]
    ELSE IF abort = "raise"
    THEN [calls |-> <<Call("on_deactivate", <<>>, "ok"), Call("sleep", ResetPause, "ok"),
                      Call("abort", <<>>, "raise")>>,
          ret |-> RetCode("reset_hardware", ERR, "reset_hardware")]
    ELSE [calls |-> <<Call("on_deactivate", <<>>, "ok"), Call("sleep", ResetPause, "ok"),
                      Call("abort", <<>>, "ok")>>,
          ret |-> RetCode("reset_hardware", OK, "")]

\* The body of reset_hardware: the calls it makes and what it returns, abort
\* and deactivate being what the stage's abort and on_deactivate do.
ResetHardware(abort, deactivate) ==
    IF abort = "raise"
    THEN [calls |-> <<Call("abort", <<>>, "raise")>>,
          ret |-> RetCode("reset_hardware", ERR, "reset_hardware")]
    ELSE IF deactivate = "raise"
    THEN [calls |-> <<Call("abort", <<>>, "ok"), Call("sleep", ResetPause, "ok"),
                      Call("on_deactivate", <<>>, "raise")>>,
          ret |-> RetCode("reset_hardware", ERR, "reset_hardware")]
    ELSE [calls |-> <<Call("abort", <<>>, "ok"), Call("sleep", ResetPause, "ok"),
                      Call("on_deactivate", <<>>, "ok")>>,
          ret |-> RetCode("reset_hardware", OK, "")]

reset_hardware(abort, deactivate) ==
    /\ phase = "active" /\ pc = "idle"
    /\ pc' = "returned"
    /\ call' = [op |-> "reset_hardware", args |-> <<>>]
    /\ abort = "raise" => deactivate = "ok"
    /\ trace' = ResetHardware(abort, deactivate).calls
    /\ ret' = ResetHardware(abort, deactivate).ret
    /\ UNCHANGED <<phase, attrs, locals>>

\* on_deactivate: reset_hardware, its return value dropped; the module is
\* deactivated afterwards.
on_deactivate(abort, deactivate) ==
    /\ phase = "active" /\ pc = "idle"
    /\ pc' = "returned"
    /\ phase' = "deactivated"
    /\ call' = [op |-> "on_deactivate", args |-> <<>>]
    /\ abort = "raise" => deactivate = "ok"
    /\ trace' = ResetHardware(abort, deactivate).calls
    /\ ret' = RetNone("on_deactivate")
    /\ UNCHANGED <<attrs, locals>>

\* The caller takes the result of the finished call and goes on.
CallerProceeds ==
    /\ pc = "returned"
    /\ pc' = "idle"
    /\ call' = NoCall
    /\ ret' = NoRet
    /\ trace' = <<>>
    /\ line_path' = <<>>
    /\ i' = 0
    /\ count_data' = <<>>
    /\ UNCHANGED <<phase, attrs>>

\* A method is called on the activated module when no other call is running.
Idle == phase = "active" /\ pc = "idle"

Next ==
    \/ /\ phase = "constructed"
       /\ \E cons \in {"ok", "raise"}, g1 \in GetPosResults, g2 \in GetPosResults :
             on_activate(cons, g1, g2)
    \/ Idle /\ \E myrange \in RangeInputs : set_position_range(myrange)
    \/ Idle /\ GetPositionRange
    \/ /\ Idle
       /\ \E args \in PositionArgs, move \in {"ok", "raise"} :
             scanner_set_position(args, move)
    \/ Idle /\ GetScannerPosition
    \/ CallerProceeds

Spec == Init /\ [][Next]_vars

\* Line scans: activation with the stage at the origin (or not answering),
\* then scan_line calls.
ScanGetPosResults == {g \in GetPosResults : g.out = "ok" => g.xyz = <<0, 0, 0>>}

NextScan ==
    \/ /\ phase = "constructed"
       /\ \E g1 \in ScanGetPosResults, g2 \in ScanGetPosResults :
             on_activate("ok", g1, g2)
    \/ Idle /\ \E line \in LineInputs : scan_line(line)
    \/ pc = "scan_for" /\ \E move \in {"ok", "raise"} : ScanFor(move)
    \/ pc = "scan_wait" /\ \E tgt \in {"ok", "raise"} : ScanWait(tgt)
    \/ pc = "scan_sample" /\ \E countdata \in CountBuffers : ScanSample(countdata)
    \/ CallerProceeds

SpecScan == Init /\ [][NextScan]_vars

\* Dwell policy, stage control and line scans: activation as for SpecScan
\* (get_constraints may raise too), then the setters and getters of the dwell
\* policy, on_target, close_scanner, reset_hardware, on_deactivate and
\* scan_line over 4 x N numpy arrays.
PolicyLines == {l \in LineInputs : l.type = "ndarray" /\ Len(l.rows) = NumAxes}

NextPolicy ==
    \/ /\ phase = "constructed"
       /\ \E cons \in {"ok", "raise"}, g1 \in ScanGetPosResults,
             g2 \in ScanGetPosResults :
             on_activate(cons, g1, g2)
    \/ Idle /\ \E num_of_bins \in BinInputs : set_dwell_count_bins(num_of_bins)
    \/ Idle /\ \E delay \in DelayInputs : set_dwell_delay(delay)
    \/ Idle /\ GetDwellCountBins
    \/ Idle /\ GetDwellDelay
    \/ Idle /\ \E tgt \in {"ok", "raise"} : OnTarget(tgt)
    \/ Idle /\ \E abort \in {"ok", "raise"} : close_scanner(abort)
    \/ /\ Idle
       /\ \E abort \in {"ok", "raise"}, deactivate \in {"ok", "raise"} :
             reset_hardware(abort, deactivate)
    \/ /\ Idle
       /\ \E abort \in {"ok", "raise"}, deactivate \in {"ok", "raise"} :
             on_deactivate(abort, deactivate)
    \/ Idle /\ \E line \in PolicyLines : scan_line(line)
    \/ pc = "scan_for" /\ \E move \in {"ok", "raise"} : ScanFor(move)
    \/ pc = "scan_wait" /\ \E tgt \in {"ok", "raise"} : ScanWait(tgt)
    \/ pc = "scan_sample" /\ \E countdata \in CountBuffers : ScanSample(countdata)
    \/ CallerProceeds

SpecPolicy == Init /\ [][NextPolicy]_vars

\* =================================================================== claims
\* The axes a call provides whose coordinate is outside / inside the range.
OutOfRangeAxes(args, ranges) ==
    {n \in DOMAIN args : ~InRange(ranges, AxisIndex(n), args[n])}
InRangeAxes(args, ranges) ==
    {n \in DOMAIN args : InRange(ranges, AxisIndex(n), args[n])}

\* The step is a call of the method op.
IsCall(op) == pc = "idle" /\ pc' = "returned" /\ call'.op = op

Returned(r, c) == r.kind = "code" /\ r.code = c
MoveCalls(t) == {n \in 1..Len(t) : t[n].f = "move_abs"}

\* C1: a scanner_set_position call that supplies a coordinate outside the
\* stored range of its axis, alone or with in-range coordinates for other
\* axes, returns the error code, and get_scanner_position returns the same
\* four values after the call as before it (stated for the calls made while
\* get_scanner_position has four values to return).
C1_OutOfRangeLeavesPosition ==
    [][ ( /\ IsCall("scanner_set_position")
          /\ get_scanner_position(current_position).kind = "value"
          /\ OutOfRangeAxes(call'.args, scanner_position_ranges) # {} )
        => ( /\ Returned(ret', ERR)
             /\ get_scanner_position(current_position') =
                    get_scanner_position(current_position) ) ]_vars

\* C2: when all provided coordinates are in range and the stage's move_abs
\* fails, scanner_set_position returns the error code and get_scanner_position
\* reports the same position as before the call (stated for the calls made
\* while get_scanner_position has a position to report).
C2_MoveFailureLeavesPosition ==
    [][ ( /\ IsCall("scanner_set_position")
          /\ get_scanner_position(current_position).kind = "value"
          /\ OutOfRangeAxes(call'.args, scanner_position_ranges) = {}
          /\ \E n \in MoveCalls(trace') : trace'[n].out = "raise" )
        => ( /\ Returned(ret', ERR)
             /\ get_scanner_position(current_position') =
                    get_scanner_position(current_position) ) ]_vars

\* C3: when all provided coordinates are in range (bounds included) and the
\* stage accepts the move, scanner_set_position returns 0 and
\* get_scanner_position then shows the given value on every provided axis and
\* the previous value on every omitted axis (stated for the calls made while
\* get_scanner_position has previous values to show).
C3_InRangeUpdatesExactlyProvided ==
    [][ ( /\ IsCall("scanner_set_position")
          /\ get_scanner_position(current_position).kind = "value"
          /\ OutOfRangeAxes(call'.args, scanner_position_ranges) = {}
          /\ \A n \in MoveCalls(trace') : trace'[n].out = "ok" )
        => ( /\ Returned(ret', OK)
             /\ get_scanner_position(current_position').kind = "value"
             /\ \A k \in Axes :
                   get_scanner_position(current_position').val[k] =
                       IF AxisNames[k] \in DOMAIN call'.args
                       THEN call'.args[AxisNames[k]]
                       ELSE get_scanner_position(current_position).val[k] ) ]_vars

\* C4: a scanner_set_position call in which any provided coordinate is outside
\* its axis's range sends no move_abs to the stage, whichever axis it is and
\* whatever else is provided.
C4_OutOfRangeSendsNoMove ==
    [][ ( /\ IsCall("scanner_set_position")
          /\ OutOfRangeAxes(call'.args, scanner_position_ranges) # {} )
        => MoveCalls(trace') = {} ]_vars

\* A call has returned that gave one coordinate out of range and another, on
\* an earlier axis, in range; nothing was sent to the stage.
C4_Witness ==
    /\ pc = "returned" /\ call.op = "scanner_set_position"
    /\ \E n \in OutOfRangeAxes(call.args, scanner_position_ranges) :
          \E m \in InRangeAxes(call.args, scanner_position_ranges) :
              AxisIndex(m) < AxisIndex(n)
    /\ trace = <<>>

\* The tables set_position_range has to refuse.
InvalidTable(a) ==
    \/ a.type \notin {"None", "list"}
    \/ /\ a.type = "list"
       /\ \/ Len(a.rows) # NumAxes
          \/ \E k \in 1..Len(a.rows) :
                Len(a.rows[k]) # 2 \/ a.rows[k][1] > a.rows[k][2]

\* C5: set_position_range with an invalid table (not 4 entries, an entry that
\* is no pair, or min > max on an axis) returns the error code, and
\* get_position_range afterwards returns the table stored before the call.
C5_InvalidTableRejected ==
    [][ (IsCall("set_position_range") /\ InvalidTable(call'.args))
        => ( /\ Returned(ret', ERR)
             /\ get_position_range(scanner_position_ranges') =
                    get_position_range(scanner_position_ranges) ) ]_vars

\* C6: set_position_range with a valid table (4 pairs, min <= max) returns 0
\* and get_position_range then returns that table; the stored table changes
\* in no other way, and scanner_set_position judges its coordinates by the
\* stored table: it reports axis n out of range only if n's coordinate is
\* outside the stored range and every provided axis before n is inside it,
\* and it returns 0 only if every provided coordinate is inside.
C6_ValidTableStoredAndUsed ==
    [][ /\ (IsCall("set_position_range") /\ ~InvalidTable(call'.args)
            /\ call'.args.type = "list")
           => ( /\ Returned(ret', OK)
                /\ get_position_range(scanner_position_ranges') = call'.args.rows )
        /\ (scanner_position_ranges' # scanner_position_ranges)
           => (IsCall("set_position_range") /\ ~InvalidTable(call'.args))
        /\ IsCall("scanner_set_position")
           => ( /\ (ret'.log \in AxisNameSet)
                   => ( /\ ret'.log \in OutOfRangeAxes(call'.args, scanner_position_ranges)
                        /\ \A m \in OutOfRangeAxes(call'.args, scanner_position_ranges) :
                              AxisIndex(ret'.log) <= AxisIndex(m) )
                /\ Returned(ret', OK)
                   => OutOfRangeAxes(call'.args, scanner_position_ranges) = {} )
      ]_vars

\* A table that is not the configured one has been stored by
\* set_position_range, and a later scanner_set_position was refused for a
\* coordinate that every configured table accepts.
C6_Witness ==
    /\ pc = "returned" /\ call.op = "scanner_set_position"
    /\ scanner_position_ranges \notin ConfigTables
    /\ ret.log \in AxisNameSet
    /\ \A t \in ConfigTables : InRange(t, AxisIndex(ret.log), call.args[ret.log])

\* C10: on activation, when the stage's position cannot be read (get_pos
\* raises, or its map lacks an axis, on the first attempt or on the retry),
\* the internal position is the midpoint of each of the 4 ranges and
\* get_scanner_position returns those midpoints.
C10_MidpointFallback ==
    [][ ( /\ IsCall("on_activate")
          /\ \E n \in 1..Len(trace') : trace'[n].f = "get_pos"
          /\ trace'[Len(trace')].out # "ok" )
        => ( /\ current_position'.val = Middle(scanner_position_ranges)
             /\ get_scanner_position(current_position') =
                    RetValue("get_scanner_position", Middle(scanner_position_ranges)) )
      ]_vars

\* ---- line scan claims, checked under SpecScan
\* The line of the running or finished scan_line call is a 4 x N numpy array.
WellFormedLine(a) == a.type = "ndarray" /\ Len(a.rows) = NumAxes
NumPixels(a) == Len(a.rows[1])
PixelArgs(a, c) == [n \in AxisNameSet |-> a.rows[AxisIndex(n)][c]]

\* The move_abs calls and count samples of trace, in order.
MovesAndSamples(t) == SelectSeq(t, LAMBDA e : e.f \in {"move_abs", "countdata"})

\* C7: a line scan completes all N pixels or stops at the first pixel whose
\* position-set fails (out of range, or move_abs failing): after the failing
\* pixel no count sample is taken for it, no move is issued for a later pixel,
\* and no N-sample result is returned.
C7_ScanStopsAtFailingPixel ==
    (call.op = "scan_line")
    => \A n \in 1..Len(trace) :
          (trace[n].f = "scanner_set_position" /\ trace[n].out = "error")
          => ( /\ \A m \in (n + 1)..Len(trace) :
                     trace[m].f \notin {"countdata", "move_abs"}
               /\ ~(pc = "returned" /\ ret.kind = "value"
                    /\ Len(ret.val) = NumPixels(call.args)) )

\* C8: a line scan over a well-formed 4 x N line with all pixels in range
\* returns exactly N samples, one column each, in pixel order: the stage is
\* commanded to pixel 1, then sample 1 is read, then the stage is commanded to
\* pixel 2, and so on, and the n-th returned value is the n-th sample read.
C8_ScanReturnsSamplesInOrder ==
    ( /\ pc = "returned" /\ call.op = "scan_line"
      /\ WellFormedLine(call.args)
      /\ \A c \in 1..NumPixels(call.args) :
            OutOfRangeAxes(PixelArgs(call.args, c), scanner_position_ranges) = {} )
    => ( /\ ret.kind = "value"
         /\ Len(ret.val) = NumPixels(call.args)
         /\ Len(MovesAndSamples(trace)) = 2 * NumPixels(call.args)
         /\ \A c \in 1..NumPixels(call.args) :
               /\ MovesAndSamples(trace)[2 * c - 1].f = "move_abs"
               /\ MovesAndSamples(trace)[2 * c - 1].arg = PixelArgs(call.args, c)
               /\ MovesAndSamples(trace)[2 * c].f = "countdata"
               /\ ret.val[c] = <<MovesAndSamples(trace)[2 * c].out>> )

\* C9: a line scan whose input is not a 4 x N indexable structure (no array,
\* a plain nested list, an array of fewer than 4 rows, a one-dimensional
\* array) returns the one-element failure sentinel and sends no move_abs.
C9_MalformedLineGivesSentinel ==
    ( /\ pc = "returned" /\ call.op = "scan_line"
      /\ ~WellFormedLine(call.args) )
    => ( /\ ret = RetValue("scan_line", Sentinel)
         /\ MoveCalls(trace) = {} )

\* ---- dwell policy and stage control claims, checked under SpecPolicy
\* C11: after activation completes, whether the startup position query
\* succeeded or failed, get_dwell_count_bins returns 1 and get_dwell_delay
\* returns 0.02.
C11_DefaultDwellAfterActivation ==
    [][ (IsCall("on_activate") /\ phase' = "active")
        => ( /\ get_dwell_count_bins(dwell_cnt_bins') =
                    RetValue("get_dwell_count_bins", DefaultBins)
             /\ get_dwell_delay(dwell_delay') =
                    RetValue("get_dwell_delay", DefaultDelay) ) ]_vars

\* The entries of trace that call the function f.
CallsOf(t, f) == {n \in 1..Len(t) : t[n].f = f}

\* C12: when the first get_pos of an activation fails for any reason (it
\* raises, or its map lacks an axis) get_pos is called exactly one more time;
\* it is called once if the first attempt succeeds and never more than twice;
\* no other stage call is repeated by the adapter: one call reaches the stage
\* at most once per operation, scan_line sending at most one move_abs per
\* pixel and one on_target.
C12_GetPosRetriedExactlyOnce ==
    /\ (call.op = "on_activate" /\ CallsOf(trace, "get_pos") # {})
       => ( /\ Cardinality(CallsOf(trace, "get_pos")) <= 2
            /\ Cardinality(CallsOf(trace, "get_pos")) =
                  IF trace[2].out = "ok" THEN 1 ELSE 2 )
    /\ \A f \in {"move_abs", "on_target", "abort", "on_deactivate", "get_constraints"} :
          Cardinality(CallsOf(trace, f)) <=
              IF call.op = "scan_line" /\ f = "move_abs"
              THEN Cardinality(CallsOf(trace, "scanner_set_position"))
              ELSE 1

\* The functions of the stage device the adapter calls.
StageFunctions ==
    {"get_constraints", "get_pos", "move_abs", "on_target", "abort", "on_deactivate"}

\* C13: in every adapter operation that calls the stage (scanner_set_position,
\* on_target, scan_line, activation, close_scanner, reset_hardware) a failure
\* raised by the stage call does not leave the operation as an exception, and
\* an operation whose last stage call raised returns the error code (a line
\* scan reports through its samples and is held only to the first part).
C13_StageFailuresCaught ==
    (pc = "returned")
    => ( /\ (\E n \in 1..Len(trace) :
                trace[n].f \in StageFunctions /\ trace[n].out = "raise")
            => ret.kind # "raise"
         /\ ( /\ call.op \notin {"scan_line", "on_deactivate"}
              /\ trace # <<>>
              /\ trace[Len(trace)].f \in StageFunctions
              /\ trace[Len(trace)].out = "raise" )
            => Returned(ret, ERR) )

\* The calls of trace that went to the stage, in order.
StageCalls(t) == SelectSeq(t, LAMBDA e : e.f \in StageFunctions)

\* C14: reset_hardware calls the stage's abort and then its on_deactivate, in
\* that order, and returns 0; if either raises it returns -1 and no exception
\* leaves it; on_deactivate is never called before abort has been called and
\* has returned.
C14_ResetAbortsThenDeactivates ==
    (pc = "returned" /\ call.op = "reset_hardware")
    => ( /\ ret.kind = "code"
         /\ StageCalls(trace) # <<>>
         /\ StageCalls(trace)[1].f = "abort"
         /\ \A n \in CallsOf(trace, "on_deactivate") :
               \E m \in 1..(n - 1) : trace[m].f = "abort" /\ trace[m].out = "ok"
         /\ IF \E n \in 1..Len(trace) : trace[n].out = "raise"
            THEN Returned(ret, ERR)
            ELSE /\ Returned(ret, OK)
                 /\ StageCalls(trace) = <<Call("abort", <<>>, "ok"),
                                          Call("on_deactivate", <<>>, "ok")>> )

\* reset_hardware has returned -1 after the abort went through and the
\* deactivation that followed it raised.
C14_Witness ==
    /\ pc = "returned" /\ call.op = "reset_hardware"
    /\ Returned(ret, ERR)
    /\ StageCalls(trace) = <<Call("abort", <<>>, "ok"),
                             Call("on_deactivate", <<>>, "raise")>>

\* C15: after set_dwell_delay(d), whatever delay was stored before (d itself
\* included, as when the call is repeated), get_dwell_delay returns d; after
\* set_dwell_count_bins(k) get_dwell_count_bins returns k; each setter leaves
\* the other dwell parameter, the position and the range table unchanged.
C15_DwellSettersObservable ==
    [][ /\ IsCall("set_dwell_delay")
           => ( /\ get_dwell_delay(dwell_delay') =
                       RetValue("get_dwell_delay", call'.args)
                /\ UNCHANGED <<dwell_cnt_bins, current_position,
                               scanner_position_ranges>> )
        /\ IsCall("set_dwell_count_bins")
           => ( /\ get_dwell_count_bins(dwell_cnt_bins') =
                       RetValue("get_dwell_count_bins", call'.args)
                /\ UNCHANGED <<dwell_delay, current_position,
                               scanner_position_ranges>> )
      ]_vars

\* set_dwell_delay has returned with the delay it was given stored, the count
\* of bins stored by an earlier set_dwell_count_bins still in place.
C15_Witness ==
    /\ pc = "returned" /\ call.op = "set_dwell_delay"
    /\ call.args # DefaultDelay
    /\ dwell_delay = <<call.args>>
    /\ dwell_cnt_bins # <<>> /\ dwell_cnt_bins[1] # DefaultBins

\* ---- scan order, checked under SpecScan
\* What a scan_line call has driven so far: the move_abs requests, the
\* on_target barriers, the settle delays and the count samples, in order.
Driven(t) ==
    SelectSeq(t, LAMBDA e : e.f \in {"move_abs", "on_target", "sleep", "countdata"})

\* The n-th thing a line scan drives: move, wait, sample for pixel 1, then
\* move, wait, sample for pixel 2, and so on; the wait is the on_target
\* barrier for the first pixel and the settle delay for the others.
ScanOrder(n) ==
    IF n % 3 = 1 THEN "move_abs"
    ELSE IF n % 3 = 0 THEN "countdata"
    ELSE IF n = 2 THEN "on_target"
    ELSE "sleep"

\* C16: a line scan drives the stage and the count source pixel by pixel in
\* the order move for pixel i, wait (on_target for the first pixel, the
\* settle delay for the others), count sample for pixel i, and only then the
\* move for pixel i+1, the move being the one to pixel i; on_target is called
\* once per line, between the first move and the first sample; a scan that
\* returns its N samples has driven all N pixels so.
C16_ScanOrder ==
    (call.op = "scan_line" /\ WellFormedLine(call.args))
    => ( /\ \A n \in 1..Len(Driven(trace)) : Driven(trace)[n].f = ScanOrder(n)
         /\ \A n \in 1..Len(Driven(trace)) :
               (n % 3 = 1) =>
                   DOMAIN Driven(trace)[n].arg =
                       DOMAIN PixelArgs(call.args, (n + 2) \div 3)
         /\ (pc = "returned" /\ ret.kind = "value" /\ NumPixels(call.args) >= 1)
            => ( /\ Len(Driven(trace)) = 3 * NumPixels(call.args)
                 /\ Cardinality(CallsOf(trace, "on_target")) = 1 ) )

\* ---- checked under Spec
\* C17: a scanner_set_position call whose provided coordinates are all in
\* range sends exactly one move_abs to the stage, and that request names
\* exactly the axes provided, each with the value given in the call (stated
\* for the calls made while get_scanner_position has a position to report).
C17_OneMoveWithGivenValues ==
    [][ ( /\ IsCall("scanner_set_position")
          /\ get_scanner_position(current_position).kind = "value"
          /\ OutOfRangeAxes(call'.args, scanner_position_ranges) = {} )
        => ( /\ Cardinality(MoveCalls(trace')) = 1
             /\ Len(trace') = 1
             /\ DOMAIN trace'[1].arg = DOMAIN call'.args
             /\ \A n \in DOMAIN call'.args : trace'[1].arg[n] = call'.args[n] ) ]_vars

\* ---- checked under SpecPolicy
\* The K most recent entries of a buffer row that holds at least K.
MostRecent(row, K) == [n \in 1..K |-> row[Len(row) - K + n]]

\* C18: every count sample of a line scan is the mean of exactly the K most
\* recent entries of channel 0 of the count buffer as it stands when the
\* sample is taken, K being the stored dwell_cnt_bins (as last set by
\* set_dwell_count_bins); no older entry and no other channel contributes
\* (stated for buffers that hold at least K entries).
C18_SampleFromLastKOfChannel0 ==
    (call.op = "scan_line" /\ dwell_cnt_bins # <<>>)
    => \A n \in CallsOf(trace, "countdata") :
          (Len(trace[n].arg[1]) >= dwell_cnt_bins[1])
          => trace[n].out = Mean(MostRecent(trace[n].arg[1], dwell_cnt_bins[1]))

\* C19: after activation and any sequence of dwell-policy setter calls the
\* stored policy has dwell_cnt_bins >= 1 and dwell_delay >= 0 (stated for the
\* states in which activation has stored a policy).
C19_DwellPolicyInBounds ==
    (phase = "active" /\ dwell_cnt_bins # <<>> /\ dwell_delay # <<>>)
    => (dwell_cnt_bins[1] >= 1 /\ dwell_delay[1] >= 0)

\* ---- checked under Spec
\* C20: in every state reached after activation by set_position_range and
\* scanner_set_position calls, each of the four coordinates of the internal
\* position lies within the stored range of its axis (stated for the states
\* in which the position has four coordinates).
C20_PositionWithinRanges ==
    (phase = "active" /\ current_position.kind \in {"ndarray_float", "ndarray_int", "list"})
    => \A k \in Axes : InRange(scanner_position_ranges, k, current_position.val[k])
====
